---- MODULE Spec2Model ----
(***************************************************************************)
(* Model of predictions.py: read_csv, power_law_fit and main (the build    *)
(* of the coefficient table followed by the interactive prediction loop).  *)
(*                                                                         *)
(* Representation.  A Python str is a sequence of one-character strings.   *)
(* A float is an integer (the input alphabet below only holds numerals     *)
(* with a zero fractional part); logarithms are taken to base 2 over       *)
(* powers of two, so the least-squares solve is exact rational arithmetic. *)
(* A rational is a pair <<n, d>> with d > 0 in lowest terms.  The factor a *)
(* of a fit is kept by its logarithm (a = 2^lga), b is kept as is.         *)
(***************************************************************************)
EXTENDS Integers, Sequences, FiniteSets, TLC

VARIABLES file, pc, data, ti, coeff, notices, err, raw, out, reported

vars == <<file, pc, data, ti, coeff, notices, err, raw, out, reported>>

(* ---------------------------------------------------------------------- *)
(* Bounds                                                                  *)
(* ---------------------------------------------------------------------- *)
MaxRows == 2

(* ---------------------------------------------------------------------- *)
(* Strings                                                                 *)
(* ---------------------------------------------------------------------- *)
UpperChars == <<"A","B","C","D","E","F","G","H","I","J","K","L","M",
                "N","O","P","Q","R","S","T","U","V","W","X","Y","Z">>
LowerChars == <<"a","b","c","d","e","f","g","h","i","j","k","l","m",
                "n","o","p","q","r","s","t","u","v","w","x","y","z">>

LowerChar(c) ==
    IF \E i \in 1..Len(UpperChars) : UpperChars[i] = c
    THEN LowerChars[CHOOSE i \in 1..Len(UpperChars) : UpperChars[i] = c]
    ELSE c

\* str.lower()
Lower(s) == [i \in 1..Len(s) |-> LowerChar(s[i])]

\* str.replace(',', '.')
ReplaceComma(s) == [i \in 1..Len(s) |-> IF s[i] = "," THEN "." ELSE s[i]]

\* sub in s
Contains(s, sub) ==
    \E i \in 0..(Len(s) - Len(sub)) :
        \A j \in 1..Len(sub) : s[i + j] = sub[j]

LogGeneration == <<"l","o","g"," ","g","e","n","e","r","a","t","i","o","n">>
RX == <<"R","X">>
TX == <<"T","X">>
Read == <<"R","e","a","d">>
Write == <<"W","r","i","t","e">>
CPULoad == <<"C","P","U"," ","l","o","a","d">>

targets == <<RX, TX, Read, Write, CPULoad>>

(* ---------------------------------------------------------------------- *)
(* float(str)                                                              *)
(* ---------------------------------------------------------------------- *)
Digits == <<"0","1","2","3","4","5","6","7","8","9">>

IsDigit(c) == \E i \in 1..10 : Digits[i] = c

DigitVal(c) == (CHOOSE i \in 1..10 : Digits[i] = c) - 1

RECURSIVE DigitsVal(_)
DigitsVal(s) ==
    IF Len(s) = 0 THEN 0
    ELSE 10 * DigitsVal(SubSeq(s, 1, Len(s) - 1)) + DigitVal(s[Len(s)])

\* float(s): ok = FALSE stands for ValueError.  [sign] digits [. digits]
ParseFloat(s) ==
    LET signed == Len(s) > 0 /\ s[1] \in {"-", "+"}
        body   == IF signed THEN SubSeq(s, 2, Len(s)) ELSE s
        hasDot == \E i \in 1..Len(body) : body[i] = "."
        dot    == IF hasDot
                  THEN CHOOSE i \in 1..Len(body) :
                          body[i] = "." /\ \A j \in 1..(i - 1) : body[j] # "."
                  ELSE Len(body) + 1
        ip     == SubSeq(body, 1, dot - 1)
        fp     == SubSeq(body, dot + 1, Len(body))
        ok     == /\ Len(ip) + Len(fp) >= 1
                  /\ \A i \in 1..Len(ip) : IsDigit(ip[i])
                  /\ \A i \in 1..Len(fp) : IsDigit(fp[i])
        mag    == DigitsVal(ip)
    IN  [ok  |-> ok,
         val |-> IF ~ok THEN 0
                 ELSE IF signed /\ s[1] = "-" THEN 0 - mag ELSE mag]

(* ---------------------------------------------------------------------- *)
(* read_csv                                                                *)
(* ---------------------------------------------------------------------- *)
NoErr == [exc |-> "none", line |-> 0]

Raise(e, l) == [exc |-> e, line |-> l]

\* the float appended for one cell of a row; a missing cell is None, whose
\* .replace raises AttributeError, a cell that does not parse raises
\* ValueError: both append 0.0
CellFloat(row, j) ==
    IF j > Len(row) THEN 0
    ELSE LET p == ParseFloat(ReplaceComma(row[j]))
         IN  IF p.ok THEN p.val ELSE 0

ColumnIndex(header, name) == CHOOSE j \in 1..Len(header) : header[j] = name

RECURSIVE ReadRows(_, _, _, _)
ReadRows(header, rows, i, columns) ==
    IF i > Len(rows) THEN [err |-> NoErr, columns |-> columns]
    ELSE LET row == rows[i] IN
         IF Len(row) = 0 THEN ReadRows(header, rows, i + 1, columns)
         ELSE IF Len(row) > Len(header)
              THEN [err |-> Raise("KeyError", 24), columns |-> <<>>]
              ELSE ReadRows(header, rows, i + 1,
                       [n \in DOMAIN columns |->
                           Append(columns[n],
                                  CellFloat(row, ColumnIndex(header, n)))])

read_csv(f) ==
    ReadRows(f.header, f.rows, 1,
             [n \in {f.header[j] : j \in 1..Len(f.header)} |-> <<>>])

(* ---------------------------------------------------------------------- *)
(* Rationals                                                               *)
(* ---------------------------------------------------------------------- *)
Abs(n) == IF n < 0 THEN 0 - n ELSE n

RECURSIVE GCD(_, _)
GCD(m, n) == IF n = 0 THEN m ELSE GCD(n, m % n)

\* n/d in lowest terms with a positive denominator (d # 0)
Rat(n, d) ==
    LET g == GCD(Abs(n), Abs(d))
        s == IF d < 0 THEN 0 - 1 ELSE 1
    IN  <<(s * n) \div g, (s * d) \div g>>

RatAdd(p, q) == Rat(p[1] * q[2] + q[1] * p[2], p[2] * q[2])

RatMulInt(p, k) == Rat(p[1] * k, p[2])

(* ---------------------------------------------------------------------- *)
(* power_law_fit                                                           *)
(* ---------------------------------------------------------------------- *)
\* the mask with the test of y left out
MaskXOnly(x, y) == [i \in 1..Len(x) |-> x[i] > 0]

\* mask = (x > 0) & (y > 0)
Mask(x, y) == [i \in 1..Len(x) |-> x[i] > 0 /\ y[i] > 0]

\* v[mask]: the elements of v at the indices where mask is TRUE, in order
RECURSIVE BoolIndex(_, _, _)
BoolIndex(v, mask, i) ==
    IF i > Len(mask) THEN <<>>
    ELSE IF mask[i] THEN <<v[i]>> \o BoolIndex(v, mask, i + 1)
         ELSE BoolIndex(v, mask, i + 1)

\* logarithm to base 2 of a power of two
RECURSIVE Log2(_)
Log2(v) == IF v <= 1 THEN 0 ELSE 1 + Log2(v \div 2)

RECURSIVE Sum(_)
Sum(s) == IF Len(s) = 0 THEN 0 ELSE s[1] + Sum(Tail(s))

NaNResult == [nan |-> TRUE, lga |-> <<0, 1>>, b |-> <<0, 1>>]

FitResult(lga, b) == [nan |-> FALSE, lga |-> lga, b |-> b]

Returned(r) == [err |-> NoErr, res |-> r]

Raised(e, l) == [err |-> Raise(e, l), res |-> NaNResult]

\* np.polyfit(px, py, 1) over the values px, py whose logarithms are fitted:
\* the set of outcomes.  An empty vector raises TypeError.  A column of
\* zeros in the Vandermonde matrix is scaled by 0/0 and the solve sees NaN:
\* it raises LinAlgError or returns NaN, depending on the LAPACK build.  A
\* rank-deficient system (all log x equal) only warns and returns the
\* minimum-norm solution.
polyfit(px, py) ==
    LET n   == Len(px)
        lx  == [i \in 1..n |-> Log2(px[i])]
        ly  == [i \in 1..n |-> Log2(py[i])]
        Sx  == Sum(lx)
        Sy  == Sum(ly)
        Sxx == Sum([i \in 1..n |-> lx[i] * lx[i]])
        Sxy == Sum([i \in 1..n |-> lx[i] * ly[i]])
        D   == n * Sxx - Sx * Sx
        N   == n * Sxy - Sx * Sy
    IN  IF n = 0 THEN {Raised("TypeError", 42)}
        ELSE IF (\E i \in 1..n : px[i] <= 0 \/ py[i] <= 0) \/ Sxx = 0
             THEN {Raised("LinAlgError", 42), Returned(NaNResult)}
        ELSE IF D = 0
             THEN {Returned(FitResult(Rat(Sy, 2 * n), Rat(Sy, 2 * n * lx[1])))}
        ELSE {Returned(FitResult(Rat(Sy * D - N * Sx, n * D), Rat(N, D)))}

MaskedX(x, y) == BoolIndex(x, Mask(x, y), 1)

MaskedY(x, y) == BoolIndex(y, Mask(x, y), 1)

power_law_fit(x, y) == polyfit(MaskedX(x, y), MaskedY(x, y))

(* ---------------------------------------------------------------------- *)
(* calc and the evaluation pass of one turn                                *)
(* ---------------------------------------------------------------------- *)
NaNValue == [kind |-> "nan", sign |-> 1, lg |-> <<0, 1>>]

ZeroValue == [kind |-> "zero", sign |-> 1, lg |-> <<0, 1>>]

NumValue(sign, lg) == [kind |-> "num", sign |-> sign, lg |-> lg]

\* a * math.pow(x_val, b); ok = FALSE stands for the ValueError math.pow
\* raises for 0 ** negative and for negative ** non-integer (the sign and
\* the integrality of b are those of the exact solution of the fit)
calc(table, y_name, x_val) ==
    LET r == table[y_name]
        b == r.b
        lg == RatAdd(r.lga, RatMulInt(b, Log2(Abs(x_val))))
    IN  IF r.nan THEN [ok |-> TRUE, val |-> NaNValue]
        ELSE IF x_val > 0 THEN [ok |-> TRUE, val |-> NumValue(1, lg)]
        ELSE IF x_val = 0
             THEN IF b[1] > 0 THEN [ok |-> TRUE, val |-> ZeroValue]
                  ELSE IF b[1] = 0 THEN [ok |-> TRUE, val |-> NumValue(1, r.lga)]
                  ELSE [ok |-> FALSE, val |-> NaNValue]
        ELSE IF b[2] = 1
             THEN [ok |-> TRUE,
                   val |-> NumValue(IF b[1] % 2 = 0 THEN 1 ELSE 0 - 1, lg)]
             ELSE [ok |-> FALSE, val |-> NaNValue]

Suffix(key) ==
    IF Contains(key, <<"c","p","u">>) THEN " CPU"
    ELSE IF \/ Contains(key, <<"r","e","a","d">>)
            \/ Contains(key, <<"w","r","i","t","e">>)
            \/ Contains(key, <<"r","x">>)
            \/ Contains(key, <<"t","x">>)
         THEN " MB/s"
         ELSE ""

RECURSIVE EvaluateAll(_, _, _, _, _)

\* the loop of one turn with break in place of continue
EvaluateAllBreak(table, names, x_val, i, printed) ==
    IF i > Len(names) THEN [err |-> NoErr, out |-> printed]
    ELSE LET key == Lower(names[i]) IN
         IF key \notin DOMAIN table
         THEN [err |-> NoErr, out |-> printed]
         ELSE LET c == calc(table, key, x_val) IN
              IF ~c.ok THEN [err |-> Raise("ValueError", 79), out |-> printed]
              ELSE EvaluateAll(table, names, x_val, i + 1,
                       Append(printed,
                              [key |-> key, val |-> c.val,
                               suffix |-> Suffix(key)]))

\* the for loop of one turn over names[i..]: the lines printed, and the
\* exception that ended it, if any
EvaluateAll(table, names, x_val, i, printed) ==
    IF i > Len(names) THEN [err |-> NoErr, out |-> printed]
    ELSE LET key == Lower(names[i]) IN
         IF key \notin DOMAIN table
         THEN EvaluateAll(table, names, x_val, i + 1, printed)
         ELSE LET c == calc(table, key, x_val) IN
              IF ~c.ok THEN [err |-> Raise("ValueError", 79), out |-> printed]
              ELSE EvaluateAll(table, names, x_val, i + 1,
                       Append(printed,
                              [key |-> key, val |-> c.val,
                               suffix |-> Suffix(key)]))

(* ---------------------------------------------------------------------- *)
(* Inputs: the CSV file and the lines typed at the prompt                  *)
(* ---------------------------------------------------------------------- *)
Headers ==
    { <<LogGeneration, RX>>,
      <<LogGeneration, RX, TX>>,
      <<LogGeneration, CPULoad>>,
      <<LogGeneration, <<"r","x">>>>,
      <<RX, TX>> }

\* rows of one to three cells, and the blank line
SampleRows ==
    { <<>>,
      << <<"2">>, <<"4">> >>,
      << <<"4">>, <<"1","6">> >>,
      << <<"1">>, <<"8">> >>,
      << <<"2",",","0">>, <<>> >>,
      << <<"-","1">>, <<"4">> >>,
      << <<"2">> >>,
      << <<"4">>, <<"2">>, <<"4">> >>,
      << <<"2">>, <<"0">>, <<"1">> >>,
      << <<"4">>, <<"x">>, <<"4">> >> }

RECURSIVE SeqsUpTo(_, _)
SeqsUpTo(S, n) ==
    IF n = 0 THEN {<<>>}
    ELSE LET shorter == SeqsUpTo(S, n - 1)
         IN  shorter \cup {Append(s, e) : s \in shorter, e \in S}

Files == [header : Headers, rows : SeqsUpTo(SampleRows, MaxRows)]

Inputs ==
    { <<>>, <<"x">>, <<"0">>, <<"-","1">>, <<"2">>, <<"4",",","0">> }

(* ---------------------------------------------------------------------- *)
(* main                                                                    *)
(* ---------------------------------------------------------------------- *)
Init ==
    /\ file \in Files
    /\ pc = "Loading"
    /\ data = <<>>
    /\ ti = 1
    /\ coeff = <<>>
    /\ notices = <<>>
    /\ err = NoErr
    /\ raw = <<>>
    /\ out = <<>>
    /\ reported = FALSE

\* data = read_csv(csv_path); x = data["log generation"]
LoadData ==
    /\ pc = "Loading"
    /\ LET r == read_csv(file) IN
       IF r.err # NoErr
       THEN /\ pc' = "Crashed" /\ err' = r.err /\ data' = data
       ELSE IF LogGeneration \notin DOMAIN r.columns
            THEN /\ pc' = "Crashed"
                 /\ err' = Raise("KeyError", 55)
                 /\ data' = r.columns
            ELSE /\ pc' = "Building" /\ err' = err /\ data' = r.columns
    /\ UNCHANGED <<file, ti, coeff, notices, raw, out, reported>>

\* the iteration for an absent name with break in place of continue
BuildSkipBreak ==
    /\ pc = "Building"
    /\ ti <= Len(targets)
    /\ targets[ti] \notin DOMAIN data
    /\ notices' = Append(notices, targets[ti])
    /\ ti' = Len(targets) + 1
    /\ UNCHANGED <<file, pc, data, coeff, err, raw, out, reported>>

\* one iteration of the for loop over targets, name not in data
BuildSkip ==
    /\ pc = "Building"
    /\ ti <= Len(targets)
    /\ targets[ti] \notin DOMAIN data
    /\ notices' = Append(notices, targets[ti])
    /\ ti' = ti + 1
    /\ UNCHANGED <<file, pc, data, coeff, err, raw, out, reported>>

\* one iteration of the for loop over targets, name in data
BuildFit ==
    /\ pc = "Building"
    /\ ti <= Len(targets)
    /\ targets[ti] \in DOMAIN data
    /\ \E o \in power_law_fit(data[LogGeneration], data[targets[ti]]) :
          IF o.err # NoErr
          THEN /\ pc' = "Crashed" /\ err' = o.err
               /\ UNCHANGED <<coeff, ti>>
          ELSE /\ coeff' = [k \in DOMAIN coeff \cup {Lower(targets[ti])} |->
                               IF k = Lower(targets[ti]) THEN o.res
                               ELSE coeff[k]]
               /\ ti' = ti + 1
               /\ UNCHANGED <<pc, err>>
    /\ UNCHANGED <<file, data, notices, raw, out, reported>>

\* the for loop is exhausted
BuildDone ==
    /\ pc = "Building"
    /\ ti > Len(targets)
    /\ pc' = "Fitted"
    /\ UNCHANGED <<file, data, ti, coeff, notices, err, raw, out, reported>>

\* the coefficients are printed and the prompt loop is entered
PrintCoefficients ==
    /\ pc = "Fitted"
    /\ pc' = "Serving"
    /\ UNCHANGED <<file, data, ti, coeff, notices, err, raw, out, reported>>

\* raw == "": break
ReadEmpty ==
    /\ pc = "Serving"
    /\ raw' = <<>>
    /\ pc' = "Terminated"
    /\ out' = <<>>
    /\ reported' = FALSE
    /\ UNCHANGED <<file, data, ti, coeff, notices, err>>

\* float(raw.replace(",", ".")) raises ValueError: report and continue
ReadMalformed ==
    /\ pc = "Serving"
    /\ \E r \in Inputs :
          /\ r # <<>>
          /\ ~ParseFloat(ReplaceComma(r)).ok
          /\ raw' = r
    /\ reported' = TRUE
    /\ out' = <<>>
    /\ UNCHANGED <<file, pc, data, ti, coeff, notices, err>>

\* a numeric turn that stores a default entry for every target without one
ReadNumericStoring ==
    /\ pc = "Serving"
    /\ \E r \in Inputs :
          /\ r # <<>>
          /\ ParseFloat(ReplaceComma(r)).ok
          /\ raw' = r
          /\ LET e == EvaluateAll(coeff, targets,
                                  ParseFloat(ReplaceComma(r)).val, 1, <<>>)
             IN  /\ out' = e.out
                 /\ err' = e.err
                 /\ pc' = IF e.err # NoErr THEN "Crashed" ELSE pc
    /\ coeff' = [k \in {Lower(targets[i]) : i \in 1..Len(targets)} |->
                    IF k \in DOMAIN coeff THEN coeff[k]
                    ELSE FitResult(<<0, 1>>, <<0, 1>>)]
    /\ reported' = FALSE
    /\ UNCHANGED <<file, data, ti, notices>>

\* a numeric line: the predictions of every fitted target are printed
ReadNumeric ==
    /\ pc = "Serving"
    /\ \E r \in Inputs :
          /\ r # <<>>
          /\ ParseFloat(ReplaceComma(r)).ok
          /\ raw' = r
          /\ LET e == EvaluateAll(coeff, targets,
                                  ParseFloat(ReplaceComma(r)).val, 1, <<>>)
             IN  /\ out' = e.out
                 /\ err' = e.err
                 /\ pc' = IF e.err # NoErr THEN "Crashed" ELSE pc
    /\ reported' = FALSE
    /\ UNCHANGED <<file, data, ti, coeff, notices>>

Next ==
    \/ LoadData
    \/ BuildSkip
    \/ BuildFit
    \/ BuildDone
    \/ PrintCoefficients
    \/ ReadEmpty
    \/ ReadMalformed
    \/ ReadNumeric

Spec == Init /\ [][Next]_vars

(* ---------------------------------------------------------------------- *)
(* Properties                                                              *)
(* ---------------------------------------------------------------------- *)
\* the for loop over targets has run to its end
BuildFinished ==
    \/ pc \in {"Fitted", "Serving", "Terminated"}
    \/ pc = "Crashed" /\ err.line = 79

\* read_csv has returned and the independent column was found
Loaded == pc \notin {"Loading"} /\ err.line \notin {24, 55}

\* the pairs (x[i], y[i]) with both members positive, in order
PositivePairs(x, y) ==
    SelectSeq([i \in 1..Len(x) |-> <<x[i], y[i]>>],
              LAMBDA p : p[1] > 0 /\ p[2] > 0)

Firsts(ps) == [i \in 1..Len(ps) |-> ps[i][1]]

Seconds(ps) == [i \in 1..Len(ps) |-> ps[i][2]]

\* the lower-cased targets that have an entry in the table, in target order
ExpectedKeys ==
    SelectSeq([i \in 1..Len(targets) |-> Lower(targets[i])],
              LAMBDA k : k \in DOMAIN coeff)

\* the load of the last turn, when the line typed was numeric
Load == ParseFloat(ReplaceComma(raw))

\* C1: once the build has finished, the table has an entry under the
\* lower-cased name of a target exactly when the target is a column of the
\* data; the absent targets are the ones reported, in order, and the table
\* has no other key.  With RX the only target among the columns the table
\* is exactly {"rx"}.
C1_BuildKeys ==
    BuildFinished =>
        /\ \A i \in 1..Len(targets) :
              (Lower(targets[i]) \in DOMAIN coeff) <=> (targets[i] \in DOMAIN data)
        /\ \A k \in DOMAIN coeff : \E i \in 1..Len(targets) : k = Lower(targets[i])
        /\ notices = SelectSeq(targets, LAMBDA n : n \notin DOMAIN data)
        /\ ({targets[i] : i \in 1..Len(targets)} \cap DOMAIN data = {RX}
              => DOMAIN coeff = {<<"r","x">>})

C1_Witness ==
    /\ pc = "Fitted"
    /\ DOMAIN data = {LogGeneration, CPULoad}
    /\ DOMAIN coeff = {<<"c","p","u"," ","l","o","a","d">>}
    /\ notices = <<RX, TX, Read, Write>>

\* C2: a fit that fails for one target (fewer than two pairs survive the
\* mask, or the surviving x are all equal) never aborts the build; once the
\* build has finished that target has no entry and every other target that
\* is a column and can be fitted has one.
C2_FitFailureIsLocal ==
    /\ ~(pc = "Crashed" /\ err.line = 42)
    /\ BuildFinished =>
          \A i \in 1..Len(targets) :
             targets[i] \in DOMAIN data =>
                LET ps == PositivePairs(data[LogGeneration], data[targets[i]])
                    failing == \/ Len(ps) < 2
                               \/ \A j \in 1..Len(ps) : ps[j][1] = ps[1][1]
                IN  (Lower(targets[i]) \in DOMAIN coeff) <=> ~failing

\* C3: power_law_fit never returns a FitResult (a pair of reals) when fewer
\* than two pairs survive the mask: no such entry of the table comes from a
\* series with fewer than two positive pairs.
C3_InsufficientDataRaises ==
    Loaded =>
       \A i \in 1..Len(targets) :
          ( /\ targets[i] \in DOMAIN data
            /\ Lower(targets[i]) \in DOMAIN coeff
            /\ ~coeff[Lower(targets[i])].nan ) =>
             Len(PositivePairs(data[LogGeneration], data[targets[i]])) >= 2

\* C4: for every target that has been fitted, the pairs handed to the
\* least-squares solve are exactly the pairs with x > 0 and y > 0, in
\* their original order and still paired, and the entry stored is a fit of
\* the series with the other pairs removed.
C4_PositivityMask ==
    Loaded =>
       \A i \in 1..Len(targets) :
          (i < ti /\ targets[i] \in DOMAIN data) =>
             LET x  == data[LogGeneration]
                 y  == data[targets[i]]
                 ps == PositivePairs(x, y)
             IN  /\ Len(MaskedX(x, y)) = Len(MaskedY(x, y))
                 /\ [j \in 1..Len(MaskedX(x, y)) |->
                        <<MaskedX(x, y)[j], MaskedY(x, y)[j]>>] = ps
                 /\ power_law_fit(x, y) = power_law_fit(Firsts(ps), Seconds(ps))
                 /\ Returned(coeff[Lower(targets[i])])
                       \in power_law_fit(Firsts(ps), Seconds(ps))

C4_Witness ==
    /\ pc = "Fitted"
    /\ RX \in DOMAIN data
    /\ Len(data[RX]) = 2
    /\ Len(PositivePairs(data[LogGeneration], data[RX])) = 1
    /\ <<"r","x">> \in DOMAIN coeff

\* C5: the only step out of Serving goes to Terminated and is taken on
\* the empty line; every other line, numeric or not, leaves the program
\* in Serving.
C5_ServingExit ==
    [][(pc = "Serving") =>
          ((raw' = <<>> /\ pc' = "Terminated") \/ (raw' # <<>> /\ pc' = "Serving"))]_vars

\* C6: a load of 0 against a stored exponent b < 0 does not end the
\* process: the turn has a defined outcome and the loop prompts again.
C6_ZeroLoadNegativeExponent ==
    ( /\ Load.ok
      /\ Load.val = 0
      /\ \E k \in DOMAIN coeff : ~coeff[k].nan /\ coeff[k].b[1] < 0 )
    => pc = "Serving"

\* C7: a turn that finishes prints one result for each target that has an
\* entry in the table and none for the others, in the order of targets,
\* each with the value of calc; a turn that is cut short has printed a
\* prefix of that list.
C7_EvaluateAll ==
    (Load.ok /\ pc \in {"Serving", "Crashed"}) =>
        /\ Len(out) <= Len(ExpectedKeys)
        /\ \A i \in 1..Len(out) :
              /\ out[i].key = ExpectedKeys[i]
              /\ out[i].val = calc(coeff, out[i].key, Load.val).val
        /\ pc = "Serving" => Len(out) = Len(ExpectedKeys)

C7_Witness ==
    /\ pc = "Serving"
    /\ Load.ok
    /\ RX \notin DOMAIN data
    /\ Len(out) = 1
    /\ out[1].key = <<"c","p","u"," ","l","o","a","d">>

\* C8: the prompt is never reached without the independent column or
\* with an empty table.
C8_UsableTable ==
    pc = "Serving" => (LogGeneration \in DOMAIN data /\ DOMAIN coeff # {})

\* C9: once the build has finished no step adds, changes or removes an
\* entry of the table.
C9_TableReadOnly ==
    [][(pc \in {"Fitted", "Serving"}) => (coeff' = coeff)]_vars

C9_Witness ==
    /\ pc = "Serving"
    /\ Load.ok
    /\ DOMAIN coeff = {<<"r","x">>}
    /\ Len(out) = 1

\* C10: read_csv never raises on a row, whatever its cells and however
\* many of them it has, and every column gets one value for each row.
C10_LoaderTotal ==
    /\ ~(pc = "Crashed" /\ err.line = 24)
    /\ Loaded =>
          \A n \in DOMAIN data :
             Len(data[n]) = Len(SelectSeq(file.rows, LAMBDA r : Len(r) > 0))

====
